---- MODULE Spec2Model ----
(***************************************************************************)
(* Model of the storyteller pipeline: the event scorer of                  *)
(* story_builder/core.py and the scan / select / assemble pass of          *)
(* story_builder/story_builder.py (build_story_from_files).                *)
(*                                                                         *)
(* Python strings are sequences of one-character strings, so that          *)
(* str.lower(), str.strip() and int() are computed rather than assumed.    *)
(***************************************************************************)
EXTENDS Integers, Sequences, FiniteSets, TLC

VARIABLES
    pc,             \* position of the run: "scan", "done", "error", "call", "scored"
    events,         \* the flattened, time-sorted event list
    top_n,          \* the requested number of highlights
    idx,            \* 1-based position of the loop of line 174 (Python idx + 1)
    score_home,     \* running MatchState
    score_away,
    scored_events,  \* candidates appended at line 177
    calls,          \* the (score_home, score_away) handed to the scorer, per call
    final_score,    \* the dict returned by the last compute_final_score call
    context_data,   \* the dict returned by compute_context_bonus on the same input
    selected,       \* the selection of lines 191-195
    pages,          \* story["pages"]
    metrics,        \* story["metrics"]
    asset_db,       \* the catalog returned by load_asset_descriptions
    player_names,   \* the resolved player names handed to pick_asset_for_event
    asset_path      \* the path returned by pick_asset_for_event

vars == <<pc, events, top_n, idx, score_home, score_away, scored_events, calls,
          final_score, context_data, selected, pages, metrics,
          asset_db, player_names, asset_path>>

----------------------------------------------------------------------------
(* Bounds of the model *)

MaxEvents == 2
MaxTopN == 2
MaxGoals == 3
MaxAssets == 3

----------------------------------------------------------------------------
(* Python str operations on character sequences *)

UpperChars == <<"A","B","C","D","E","F","G","H","I","J","K","L","M",
                "N","O","P","Q","R","S","T","U","V","W","X","Y","Z">>
LowerChars == <<"a","b","c","d","e","f","g","h","i","j","k","l","m",
                "n","o","p","q","r","s","t","u","v","w","x","y","z">>
DigitChars == <<"0","1","2","3","4","5","6","7","8","9">>
Whitespace == {" "}

LowerChar(c) ==
    IF \E i \in 1..Len(UpperChars) : UpperChars[i] = c
    THEN LowerChars[CHOOSE i \in 1..Len(UpperChars) : UpperChars[i] = c]
    ELSE c

Lower(s) == [i \in 1..Len(s) |-> LowerChar(s[i])]

RECURSIVE LStrip(_)
LStrip(s) ==
    IF s # <<>> /\ Head(s) \in Whitespace THEN LStrip(Tail(s)) ELSE s

RECURSIVE RStrip(_)
RStrip(s) ==
    IF s # <<>> /\ s[Len(s)] \in Whitespace
    THEN RStrip(SubSeq(s, 1, Len(s) - 1))
    ELSE s

Strip(s) == RStrip(LStrip(s))

IsDigit(c) == \E i \in 1..Len(DigitChars) : DigitChars[i] = c
DigitVal(c) == (CHOOSE i \in 1..Len(DigitChars) : DigitChars[i] = c) - 1

RECURSIVE DecimalValue(_)
DecimalValue(s) ==
    IF s = <<>> THEN 0
    ELSE 10 * DecimalValue(SubSeq(s, 1, Len(s) - 1)) + DigitVal(s[Len(s)])

(* int(raw) of lines 26, 30 and 89 with its except clause: an int is itself, *)
(* a str of digits (surrounding blanks allowed) is its decimal value, and    *)
(* None or any other str raises TypeError / ValueError, which yields 0.      *)
IntOrZero(raw) ==
    CASE raw.kind = "int" -> raw.n
      [] raw.kind = "str" ->
            LET t == Strip(raw.s) IN
            IF t # <<>> /\ \A i \in 1..Len(t) : IsDigit(t[i])
            THEN DecimalValue(t)
            ELSE 0
      [] OTHER -> 0

PyInt(k) == [kind |-> "int", n |-> k, s |-> <<>>]
PyStr(chars) == [kind |-> "str", n |-> 0, s |-> chars]
PyNone == [kind |-> "none", n |-> 0, s |-> <<>>]

----------------------------------------------------------------------------
(* core.py: base scores *)

T_goal == <<"g","o","a","l">>
T_penalty_goal == <<"p","e","n","a","l","t","y"," ","g","o","a","l">>
T_red_card == <<"r","e","d"," ","c","a","r","d">>
T_penalty_won == <<"p","e","n","a","l","t","y"," ","w","o","n">>
T_penalty_lost == <<"p","e","n","a","l","t","y"," ","l","o","s","t">>
T_attempt_saved == <<"a","t","t","e","m","p","t"," ","s","a","v","e","d">>
T_attempt_blocked == <<"a","t","t","e","m","p","t"," ","b","l","o","c","k","e","d">>
T_post == <<"p","o","s","t">>
T_miss == <<"m","i","s","s">>
T_yellow_card == <<"y","e","l","l","o","w"," ","c","a","r","d">>
T_corner == <<"c","o","r","n","e","r">>

BASE_SCORES ==
    (T_goal :> 100) @@ (T_penalty_goal :> 95) @@ (T_red_card :> 90) @@
    (T_penalty_won :> 70) @@ (T_penalty_lost :> 60) @@ (T_attempt_saved :> 60) @@
    (T_attempt_blocked :> 55) @@ (T_post :> 50) @@ (T_miss :> 40) @@
    (T_yellow_card :> 30) @@ (T_corner :> 10)

get_base_score(event_type) ==
    LET k == Strip(Lower(event_type)) IN
    IF k \in DOMAIN BASE_SCORES THEN BASE_SCORES[k] ELSE 0

_parse_minute(event) == IntOrZero(event.minute)

Abs(x) == IF x < 0 THEN -x ELSE x

----------------------------------------------------------------------------
(* core.py: context bonus *)

(* `bonus += amount; reasons.append("label=amount")`: the increment and the *)
(* recorded reason are two separate literals of the source.  A reason      *)
(* string "label=amount" is the record [label, amount].                    *)
Reason(label, amount) == [label |-> label, amount |-> amount]
Award(acc, increment, reason) ==
    [bonus |-> acc.bonus + increment, reasons |-> Append(acc.reasons, reason),
     returned |-> acc.returned]

R_late_game == Reason("late_game", 15)
R_very_late == Reason("very_late", 5)
R_penalty_goal_bonus == Reason("penalty_goal_bonus", 10)
R_first_goal == Reason("first_goal", 25)
R_equalizer == Reason("equalizer", 30)
R_go_ahead == Reason("go_ahead", 30)
R_extend_lead == Reason("extend_lead", 15)
R_extend_big_lead == Reason("extend_big_lead", 5)
R_tight_game_chance == Reason("tight_game_chance", 20)

GoalTypes == {T_goal, T_penalty_goal}
ChanceTypes == {T_attempt_saved, T_attempt_blocked, T_miss, T_post}

(* the first goal taken to be the one that finds one goal on the board *)
is_first_goal_off_by_one(sh, sa) == sh + sa = 1
is_first_goal(sh, sa) == sh = 0 /\ sa = 0
(* the equalizer read off the difference before the goal, not after it *)
is_equalizer_before(diff_before, diff_after) == diff_before = 0
is_equalizer(diff_before, diff_after) == diff_after = 0
is_go_ahead(diff_before, diff_after) == diff_before = 0 /\ diff_after = 1
is_extend_lead(diff_before, diff_after) == diff_before = 1 /\ diff_after = 2
is_extend_big_lead(diff_before, diff_after) == diff_before >= 2

(* the two time bonuses taken as alternatives (elif) instead of cumulative *)
TimeBonus_exclusive(acc, minute) ==
    IF minute >= 90 THEN Award(acc, 5, R_very_late)
    ELSE IF minute >= 80 THEN Award(acc, 15, R_late_game)
    ELSE acc

(* 1. time-based bonus, lines 54-59 *)
TimeBonus(acc, minute) ==
    IF minute >= 80
    THEN LET a == Award(acc, 15, R_late_game) IN
         IF minute >= 90 THEN Award(a, 5, R_very_late) ELSE a
    ELSE acc

(* 2. penalty bonus, lines 62-64 *)
PenaltyBonus(acc, event_type) ==
    IF event_type = T_penalty_goal THEN Award(acc, 10, R_penalty_goal_bonus) ELSE acc

(* an early return that hands back the reasons but no bonus *)
EarlyReturn_without_bonus(acc) == [acc EXCEPT !.returned = TRUE, !.bonus = 0]
(* line 79: return {"bonus": bonus, "reasons": reasons} *)
EarlyReturn(acc) == [acc EXCEPT !.returned = TRUE]

(* 3. goal / scoreline context, lines 67-106; an unmatched team reference *)
(* returns what was accumulated so far (line 79)                          *)
GoalBonus(acc, event_type, team, sh, sa, home_team_id, away_team_id) ==
    IF event_type \notin GoalTypes THEN acc
    ELSE IF team # home_team_id /\ team # away_team_id
    THEN EarlyReturn(acc)
    ELSE
        LET diff_before == Abs(sh - sa)
            new_home == IF team = home_team_id THEN sh + 1 ELSE sh
            new_away == IF team = home_team_id THEN sa ELSE sa + 1
            diff_after == Abs(new_home - new_away)
            a1 == IF is_first_goal(sh, sa) THEN Award(acc, 25, R_first_goal) ELSE acc
            a2 == IF is_equalizer(diff_before, diff_after)
                  THEN Award(a1, 30, R_equalizer) ELSE a1
            a3 == IF is_go_ahead(diff_before, diff_after)
                  THEN Award(a2, 30, R_go_ahead) ELSE a2
            a4 == IF is_extend_lead(diff_before, diff_after)
                  THEN Award(a3, 15, R_extend_lead) ELSE a3
            a5 == IF is_extend_big_lead(diff_before, diff_after)
                  THEN Award(a4, 5, R_extend_big_lead) ELSE a4
        IN a5

(* 4. big chance in a tight game, lines 109-112 *)
ChanceBonus(acc, event_type, minute, sh, sa) ==
    IF acc.returned THEN acc
    ELSE IF event_type \in ChanceTypes /\ Abs(sh - sa) <= 1 /\ minute >= 75
    THEN Award(acc, 20, R_tight_game_chance)
    ELSE acc

compute_context_bonus(event, sh, sa, home_team_id, away_team_id) ==
    LET minute == _parse_minute(event)
        event_type == Strip(Lower(event.type))
        a0 == [bonus |-> 0, reasons |-> <<>>, returned |-> FALSE]
        a1 == TimeBonus(a0, minute)
        a2 == PenaltyBonus(a1, event_type)
        a3 == GoalBonus(a2, event_type, event.teamRef1, sh, sa,
                        home_team_id, away_team_id)
        a4 == ChanceBonus(a3, event_type, minute, sh, sa)
    IN [bonus |-> a4.bonus, reasons |-> a4.reasons]

(* the scorer without the short-circuit of lines 125-126 *)
compute_final_score_no_short_circuit(event, sh, sa, home_team_id, away_team_id) ==
    LET base == get_base_score(event.type)
        context == compute_context_bonus(event, sh, sa, home_team_id, away_team_id)
    IN [score |-> base + context.bonus, base |-> base,
        context_bonus |-> context.bonus, bonus_reasons |-> context.reasons]

compute_final_score(event, sh, sa, home_team_id, away_team_id) ==
    LET base == get_base_score(event.type) IN
    IF base = 0
    THEN [score |-> 0, base |-> 0, context_bonus |-> 0, bonus_reasons |-> <<>>]
    ELSE LET context == compute_context_bonus(event, sh, sa, home_team_id, away_team_id)
         IN [score |-> base + context.bonus, base |-> base,
             context_bonus |-> context.bonus, bonus_reasons |-> context.reasons]

----------------------------------------------------------------------------
(* The inputs: events of a match between team_a (home) and team_b (away) *)

HOME_TEAM_ID == "team_a"
AWAY_TEAM_ID == "team_b"
TeamRefs == {"team_a", "team_b", "team_x"}

T_Goal_padded == <<"G","o","a","l"," ">>
T_foul == <<"f","o","u","l">>
RawTypes == {T_goal, T_Goal_padded, T_penalty_goal, T_corner, T_post, T_foul, <<>>}

RawMinutes == {PyInt(10), PyStr(<<"7","5">>), PyStr(<<"8","0">>),
               PyStr(<<"9","0">>), PyStr(<<"x">>), PyNone}

Events == [type : RawTypes, minute : RawMinutes, teamRef1 : TeamRefs]

IsGoalType(ev) == Strip(Lower(ev.type)) \in GoalTypes

----------------------------------------------------------------------------
(* story_builder.py: _flatten_events *)

(* key(ev) of lines 27-37; the events of the model carry no "second" key, *)
(* so ev.get("second", 0) is 0                                            *)
SortKey(ev) == <<IntOrZero(ev.minute), IntOrZero(PyInt(0))>>

KeyLessEq(a, b) == a[1] < b[1] \/ (a[1] = b[1] /\ a[2] <= b[2])

(* sorted() is stable: x goes after every element whose key is <= its own *)
RECURSIVE InsertByKey(_, _)
InsertByKey(s, x) ==
    IF s = <<>> THEN <<x>>
    ELSE IF KeyLessEq(SortKey(s[Len(s)]), SortKey(x)) THEN Append(s, x)
    ELSE Append(InsertByKey(SubSeq(s, 1, Len(s) - 1), x), s[Len(s)])

RECURSIVE _flatten_events(_)
_flatten_events(messages) ==
    IF messages = <<>> THEN <<>>
    ELSE InsertByKey(_flatten_events(SubSeq(messages, 1, Len(messages) - 1)),
                     messages[Len(messages)])

----------------------------------------------------------------------------
(* asset_picker.py *)

(* `sub in s` on strings *)
Contains(s, sub) ==
    \E i \in 0..(Len(s) - Len(sub)) : SubSeq(s, i + 1, i + Len(sub)) = sub

K_scores == <<"s","c","o","r","e","s">>
K_celebrates == <<"c","e","l","e","b","r","a","t","e","s">>
K_celebration == <<"c","e","l","e","b","r","a","t","i","o","n">>
K_penalty == <<"p","e","n","a","l","t","y">>
K_card == <<"c","a","r","d">>

ASSETS_PREFIX == <<".",".","/","a","s","s","e","t","s","/">>
PLACEHOLDER_PNG == <<"p","l","a","c","e","h","o","l","d","e","r",".","p","n","g">>
DEFAULT_ASSET == ASSETS_PREFIX \o PLACEHOLDER_PNG

(* lines 28-41: strip both fields, drop an item with an empty one *)
RECURSIVE load_asset_descriptions(_)
load_asset_descriptions(items) ==
    IF items = <<>> THEN <<>>
    ELSE LET item == items[Len(items)]
             filename == Strip(item.filename)
             desc == Strip(item.description)
             rest == load_asset_descriptions(SubSeq(items, 1, Len(items) - 1))
         IN IF filename = <<>> \/ desc = <<>> THEN rest
            ELSE Append(rest, [filename |-> filename, description |-> desc,
                               description_lower |-> Lower(desc)])

(* lines 60-66: +100 for every non-blank name found in the description *)
RECURSIVE NameScore(_, _)
NameScore(desc, names) ==
    IF names = <<>> THEN 0
    ELSE LET n == Strip(names[1]) IN
         (IF n # <<>> /\ Contains(desc, Lower(n)) THEN 100 ELSE 0)
             + NameScore(desc, Tail(names))

_score_asset_for_event(asset, event_type, candidate_player_names) ==
    LET desc == asset.description_lower IN
    NameScore(desc, candidate_player_names)
    + (IF event_type \in GoalTypes /\ (Contains(desc, K_scores) \/ Contains(desc, T_goal))
       THEN 25 ELSE 0)
    + (IF event_type \in GoalTypes
            /\ (Contains(desc, K_celebrates) \/ Contains(desc, K_celebration))
       THEN 15 ELSE 0)
    + (IF event_type = T_penalty_goal /\ Contains(desc, K_penalty) THEN 25 ELSE 0)
    + (IF event_type = T_yellow_card /\ Contains(desc, K_card) THEN 10 ELSE 0)

(* a later asset replacing the best on an equal score *)
is_better_or_equal(score, best_score) == score >= best_score
(* line 115: if score > best_score *)
is_better(score, best_score) == score > best_score

(* lines 110-117: best_score and best_filename after the first k assets;  *)
(* best_filename None is <<>>, and a filename f is <<f>>                  *)
RECURSIVE BestAfter(_, _, _, _)
BestAfter(assets, event_type, names, k) ==
    IF k = 0 THEN [best_score |-> 0, best_filename |-> <<>>]
    ELSE LET b == BestAfter(assets, event_type, names, k - 1)
             score == _score_asset_for_event(assets[k], event_type, names)
         IN IF is_better(score, b.best_score)
            THEN [best_score |-> score, best_filename |-> <<assets[k].filename>>]
            ELSE b

pick_asset_for_event(event, names, assets, default_asset) ==
    IF assets = <<>> THEN default_asset
    ELSE LET event_type == Strip(Lower(event.type))
             b == BestAfter(assets, event_type, names, Len(assets))
         IN IF b.best_filename = <<>> THEN default_asset
            ELSE ASSETS_PREFIX \o b.best_filename[1]

(* The catalogs and names of the model *)
N_Bo == <<"B","o">>
N_Al == <<"A","l">>
N_BO_padded == <<"B","O"," ">>
PlayerLists == {<<>>, <<N_Bo>>, <<N_Al>>, <<N_Bo, N_Al>>, <<N_BO_padded>>, <<<<" ">>>>}

F_a == <<"a",".","j","p","g">>
F_b == <<"b",".","j","p","g">>
F_c == <<"c",".","j","p","g">>
F_d == <<"d",".","j","p","g">>
F_e == <<"e",".","j","p","g">>
F_f == <<"f",".","j","p","g">>
RawAssets ==
    { [filename |-> F_a, description |-> <<"B","o"," ","s","c","o","r","e","s">>],
      [filename |-> F_b, description |-> <<"G","o","a","l"," ","B","o">>],
      [filename |-> F_c,
       description |-> <<"A","l"," ">> \o K_celebrates \o <<" ">> \o K_penalty],
      [filename |-> F_d, description |-> <<"C","a","r","d">>],
      [filename |-> F_e, description |-> <<"c","r","o","w","d">>],
      [filename |-> F_f, description |-> <<" ">>] }

RawCatalogs == UNION {[1..n -> RawAssets] : n \in 0..MaxAssets}

AssetEventTypes == {T_goal, T_Goal_padded, T_penalty_goal, T_yellow_card, T_corner}

----------------------------------------------------------------------------
(* story_builder.py: pages *)

_make_cover_page(final_home, final_away) ==
    [id |-> "uuid4", type |-> "cover", headline |-> "title - date",
     image |-> ASSETS_PREFIX \o <<"c","o","v","e","r",".","j","p","g">>,
     caption |-> <<final_home, final_away>>, created_at |-> "utc_now"]

_make_highlight_page(event, score, asset, original_index) ==
    [id |-> "uuid4", type |-> "highlight", minute |-> IntOrZero(event.minute),
     image |-> asset, explanation |-> score, event_type |-> event.type,
     original_index |-> original_index, created_at |-> "utc_now"]

_make_no_highlights_page ==
    [id |-> "uuid4", type |-> "info", headline |-> "No highlights available",
     body |-> "No events reached the highlight threshold for this match.",
     created_at |-> "utc_now"]

----------------------------------------------------------------------------
(* story_builder.py: build_story_from_files *)

(* The outcome of a Python expression: a value, or a raised exception *)
Value(v) == [raised |-> FALSE, value |-> v]
Raised == [raised |-> TRUE, value |-> <<>>]

(* line 176, `final_score > 0`: final_score is the dict compute_final_score *)
(* returns, and Python 3 orders no dict against an int: TypeError           *)
DictGreaterThanInt(d, k) == Raised

(* line 191, scored_events.sort(key=lambda t: (-t[1], t[0])): t[1] is the  *)
(* dict stored at line 177, and the key of every element is evaluated, so   *)
(* a non-empty list raises TypeError (unary minus of a dict); an empty list *)
(* evaluates no key and stays empty                                         *)
SortByScore(cands) == IF cands = <<>> THEN Value(<<>>) ELSE Raised

(* s[:n] *)
SliceTo(s, n) ==
    IF n >= 0 THEN SubSeq(s, 1, IF n < Len(s) THEN n ELSE Len(s))
    ELSE SubSeq(s, 1, IF Len(s) + n > 0 THEN Len(s) + n ELSE 0)

(* line 195, selected.sort(key=lambda t: t[0]) *)
RECURSIVE InsertByIndex(_, _)
InsertByIndex(s, t) ==
    IF s = <<>> THEN <<t>>
    ELSE IF s[Len(s)][1] <= t[1] THEN Append(s, t)
    ELSE Append(InsertByIndex(SubSeq(s, 1, Len(s) - 1), t), s[Len(s)])

RECURSIVE SortByIndex(_)
SortByIndex(s) ==
    IF s = <<>> THEN <<>>
    ELSE InsertByIndex(SortByIndex(SubSeq(s, 1, Len(s) - 1)), s[Len(s)])

(* lines 199-226; the events of the model carry no playerRef1 / playerRef2, *)
(* so the players of every page are []                                      *)
BuildPages(sel, final_home, final_away, assets) ==
    <<_make_cover_page(final_home, final_away)>> \o
    (IF sel = <<>>
     THEN <<_make_no_highlights_page>>
     ELSE [i \in 1..Len(sel) |->
             _make_highlight_page(sel[i][3], sel[i][2],
                                  pick_asset_for_event(sel[i][3], <<>>, assets,
                                                       DEFAULT_ASSET),
                                  sel[i][1])])

IsHighlight(p) == p.type = "highlight"
IsGoalLikePage(p) == p.type = "highlight" /\ p.event_type \in GoalTypes

CountType(ps, t) == Cardinality({i \in 1..Len(ps) : ps[i].type = t})
CountGoalLike(ps) == Cardinality({i \in 1..Len(ps) : IsGoalLikePage(ps[i])})

(* lines 234-245 *)
BuildMetrics(ps) ==
    [goals |-> CountGoalLike(ps), highlights |-> CountType(ps, "highlight")]

DefaultTopN == 7
TopNs == (0..MaxTopN) \cup {DefaultTopN}

NoResult == <<>>

(* the catalogs of the pipeline runs: an empty one and a one-asset one *)
PipelineCatalogs ==
    {<<>>, <<[filename |-> F_a, description |-> <<"B","o"," ","s","c","o","r","e","s">>]>>}

Init ==
    /\ pc = "scan"
    /\ \E messages \in UNION {[1..n -> Events] : n \in 0..MaxEvents} :
          events = _flatten_events(messages)
    /\ top_n \in TopNs
    /\ idx = 1
    /\ score_home = 0
    /\ score_away = 0
    /\ scored_events = <<>>
    /\ calls = <<>>
    /\ final_score = NoResult
    /\ context_data = NoResult
    /\ selected = <<>>
    /\ pages = <<>>
    /\ metrics = NoResult
    /\ \E items \in PipelineCatalogs : asset_db = load_asset_descriptions(items)
    /\ player_names = <<>>
    /\ asset_path = NoResult

(* One iteration of the loop of lines 174-186 *)
ScoreEvent ==
    /\ pc = "scan"
    /\ idx <= Len(events)
    /\ LET ev == events[idx]
           fs == compute_final_score(ev, score_home, score_away,
                                     HOME_TEAM_ID, AWAY_TEAM_ID)
           positive == DictGreaterThanInt(fs, 0)
       IN /\ final_score' = fs
          /\ calls' = Append(calls, <<score_home, score_away>>)
          /\ IF positive.raised
             THEN /\ pc' = "error"
                  /\ UNCHANGED <<idx, score_home, score_away, scored_events>>
             ELSE /\ pc' = pc
                  /\ idx' = idx + 1
                  /\ scored_events' = IF positive.value
                                      THEN Append(scored_events, <<idx, fs, ev>>)
                                      ELSE scored_events
                  /\ score_home' = IF IsGoalType(ev) /\ ev.teamRef1 = HOME_TEAM_ID
                                   THEN score_home + 1 ELSE score_home
                  /\ score_away' = IF /\ IsGoalType(ev)
                                      /\ ev.teamRef1 # HOME_TEAM_ID
                                      /\ ev.teamRef1 = AWAY_TEAM_ID
                                   THEN score_away + 1 ELSE score_away
    /\ UNCHANGED <<events, top_n, context_data, selected, pages, metrics,
                   asset_db, player_names, asset_path>>

(* Lines 188-253, after the loop: rank, take top_n, re-sort, assemble *)
BuildStory ==
    /\ pc = "scan"
    /\ idx > Len(events)
    /\ LET ranked == SortByScore(scored_events) IN
       IF ranked.raised
       THEN /\ pc' = "error"
            /\ UNCHANGED <<selected, pages, metrics>>
       ELSE LET sel == SortByIndex(SliceTo(ranked.value, top_n))
                ps == BuildPages(sel, score_home, score_away, asset_db)
            IN /\ selected' = sel
               /\ pages' = ps
               /\ metrics' = BuildMetrics(ps)
               /\ pc' = "done"
    /\ UNCHANGED <<events, top_n, idx, score_home, score_away, scored_events,
                   calls, final_score, context_data, asset_db, player_names,
                   asset_path>>

Next == ScoreEvent \/ BuildStory

Spec == Init /\ [][Next]_vars

----------------------------------------------------------------------------
(* The scorer alone: compute_final_score and compute_context_bonus applied *)
(* to one event and one pre-state, as the tests call them                  *)

InitScore ==
    /\ pc = "call"
    /\ \E ev \in Events : events = <<ev>>
    /\ score_home \in 0..MaxGoals
    /\ score_away \in 0..MaxGoals
    /\ top_n = 0
    /\ idx = 1
    /\ scored_events = <<>>
    /\ calls = <<>>
    /\ final_score = NoResult
    /\ context_data = NoResult
    /\ selected = <<>>
    /\ pages = <<>>
    /\ metrics = NoResult
    /\ asset_db = <<>>
    /\ player_names = <<>>
    /\ asset_path = NoResult

CallScorer ==
    /\ pc = "call"
    /\ final_score' = compute_final_score(events[1], score_home, score_away,
                                          HOME_TEAM_ID, AWAY_TEAM_ID)
    /\ context_data' = compute_context_bonus(events[1], score_home, score_away,
                                             HOME_TEAM_ID, AWAY_TEAM_ID)
    /\ pc' = "scored"
    /\ UNCHANGED <<events, top_n, idx, score_home, score_away, scored_events,
                   calls, selected, pages, metrics, asset_db, player_names,
                   asset_path>>

NextScore == CallScorer

SpecScore == InitScore /\ [][NextScore]_vars

----------------------------------------------------------------------------
(* Properties of build_story_from_files, checked under Spec *)

Terminated == pc \in {"done", "error"}

PageTypes(ps) == [i \in 1..Len(ps) |-> ps[i].type]

(* the goals of `team` among the events before position k *)
GoalsBefore(team, k) ==
    Cardinality({j \in 1..(k - 1) : IsGoalType(events[j]) /\ events[j].teamRef1 = team})

(* the score of the event at position k against the state before it *)
ScoreAt(k) ==
    compute_final_score(events[k], GoalsBefore(HOME_TEAM_ID, k),
                        GoalsBefore(AWAY_TEAM_ID, k), HOME_TEAM_ID, AWAY_TEAM_ID).score

Candidates == {k \in 1..Len(events) : ScoreAt(k) > 0}
SelectedIndexes == {selected[i][1] : i \in 1..Len(selected)}
Min(a, b) == IF a < b THEN a ELSE b

(* C1: for every event list and top_n the run yields a Story whose pages   *)
(* hold exactly one cover page, at position 0; with no highlight page,     *)
(* position 1 is the one info page; with a highlight page there is no info *)
(* page.                                                                   *)
C1_StoryShape ==
    Terminated =>
        /\ Len(pages) >= 1
        /\ pages[1].type = "cover"
        /\ CountType(pages, "cover") = 1
        /\ CountType(pages, "highlight") = 0 =>
              /\ Len(pages) >= 2
              /\ pages[2].type = "info"
              /\ CountType(pages, "info") = 1
        /\ CountType(pages, "highlight") > 0 => CountType(pages, "info") = 0

(* C2: the scoring-and-selection pass never ends in an error state: for    *)
(* every event list it runs to completion and returns a Story.             *)
C2_NoFatalError == pc # "error"

(* C3: when the pass has ended, the event at every position k was scored   *)
(* against exactly the goals of the home and of the away team at the       *)
(* positions strictly before k, starting from (0,0).                       *)
C3_PreEventState ==
    Terminated =>
        \A k \in 1..Len(events) :
            /\ k <= Len(calls)
            /\ calls[k] = <<GoalsBefore(HOME_TEAM_ID, k), GoalsBefore(AWAY_TEAM_ID, k)>>

(* C4: the selection holds min(top_n, number of candidates with score > 0) *)
(* candidates; every selected one scores at least as high as every         *)
(* candidate left out, and on equal scores has the smaller original index. *)
C4_TopNSelection ==
    Terminated =>
        /\ SelectedIndexes \subseteq Candidates
        /\ Cardinality(SelectedIndexes) = Min(top_n, Cardinality(Candidates))
        /\ \A s \in SelectedIndexes : \A u \in Candidates \ SelectedIndexes :
              /\ ScoreAt(s) >= ScoreAt(u)
              /\ ScoreAt(s) = ScoreAt(u) => s < u

(* C5: the Story's highlight pages are in strictly increasing original     *)
(* index of their events, so their minutes never decrease.                 *)
C5_ChronologicalHighlights ==
    Terminated =>
        /\ pc = "done"
        /\ \A i, j \in 1..Len(pages) :
              (i < j /\ IsHighlight(pages[i]) /\ IsHighlight(pages[j])) =>
                  /\ pages[i].original_index < pages[j].original_index
                  /\ pages[i].minute <= pages[j].minute

(* C6: with top_n = 0, or with no event of base score > 0, the Story is    *)
(* one cover page and one info page and no highlight page.                 *)
C6_NoHighlightsFallback ==
    (/\ Terminated
     /\ \/ top_n = 0
        \/ \A k \in 1..Len(events) : get_base_score(events[k].type) = 0)
    => PageTypes(pages) = <<"cover", "info">>

(* C7: a match whose only event is a corner at minute 10 has no scoreable  *)
(* event; built with top_n = 7 the Story is a cover page and an info page  *)
(* and metrics.highlights is 0.                                            *)
C7_CornerScenario ==
    (/\ Terminated
     /\ top_n = 7
     /\ Len(events) = 1
     /\ Strip(Lower(events[1].type)) = T_corner
     /\ IntOrZero(events[1].minute) = 10)
    => /\ ScoreAt(1) = 0
       /\ PageTypes(pages) = <<"cover", "info">>
       /\ metrics.highlights = 0

----------------------------------------------------------------------------
(* Properties of the scorer, checked under SpecScore *)

Scored == pc = "scored"
Range(f) == {f[i] : i \in DOMAIN f}
Recorded(reason) ==
    reason \in Range(final_score.bonus_reasons) /\ reason \in Range(context_data.reasons)
NotRecorded(reason) ==
    reason \notin Range(final_score.bonus_reasons)
        /\ reason \notin Range(context_data.reasons)

(* C8: an event whose normalized type has base score 0 gets score 0,       *)
(* context_bonus 0 and no reasons, whatever the pre-state, minute and team.*)
C8_BaseZeroScoresZero ==
    (Scored /\ get_base_score(events[1].type) = 0) =>
        final_score = [score |-> 0, base |-> 0, context_bonus |-> 0,
                       bonus_reasons |-> <<>>]

(* a late event of unknown type: its context alone would earn a bonus *)
C8_Witness ==
    /\ Scored
    /\ get_base_score(events[1].type) = 0
    /\ context_data.bonus > 0
    /\ final_score.score = 0

(* C9 as stated: every goal-type event, with any team reference, scored    *)
(* against (0,0) has the first-goal component of +25.                      *)
C9_FirstGoalAnyTeam ==
    (Scored /\ IsGoalType(events[1]) /\ score_home = 0 /\ score_away = 0) =>
        Recorded([label |-> "first_goal", amount |-> 25])

(* C9 amended: every goal-type event whose team reference is the home or   *)
(* the away id, scored against (0,0), has the first-goal component of +25. *)
C9_FirstGoalKnownTeam ==
    (/\ Scored
     /\ IsGoalType(events[1])
     /\ events[1].teamRef1 \in {HOME_TEAM_ID, AWAY_TEAM_ID}
     /\ score_home = 0
     /\ score_away = 0)
    => /\ Recorded([label |-> "first_goal", amount |-> 25])
       /\ final_score.context_bonus >= 25

C9_Witness ==
    /\ Scored
    /\ IsGoalType(events[1])
    /\ events[1].teamRef1 = AWAY_TEAM_ID
    /\ score_home = 0
    /\ score_away = 0
    /\ Recorded([label |-> "first_goal", amount |-> 25])

TrailsByOne ==
    \/ events[1].teamRef1 = AWAY_TEAM_ID /\ score_home = score_away + 1
    \/ events[1].teamRef1 = HOME_TEAM_ID /\ score_away = score_home + 1

(* C10: no goal-type event gets both the equalizer and the go-ahead bonus, *)
(* and a goal by the team trailing by one gets equalizer=30 and not        *)
(* go_ahead=30.                                                            *)
C10_EqualizerExcludesGoAhead ==
    (Scored /\ IsGoalType(events[1])) =>
        /\ ~(/\ [label |-> "equalizer", amount |-> 30]
                    \in Range(final_score.bonus_reasons)
             /\ [label |-> "go_ahead", amount |-> 30]
                    \in Range(final_score.bonus_reasons))
        /\ ~(/\ [label |-> "equalizer", amount |-> 30] \in Range(context_data.reasons)
             /\ [label |-> "go_ahead", amount |-> 30] \in Range(context_data.reasons))
        /\ TrailsByOne =>
              /\ Recorded([label |-> "equalizer", amount |-> 30])
              /\ NotRecorded([label |-> "go_ahead", amount |-> 30])

C10_Witness ==
    /\ Scored
    /\ IsGoalType(events[1])
    /\ events[1].teamRef1 = AWAY_TEAM_ID
    /\ score_home = 1
    /\ score_away = 0
    /\ Recorded([label |-> "equalizer", amount |-> 30])
    /\ NotRecorded([label |-> "go_ahead", amount |-> 30])

----------------------------------------------------------------------------
(* C11 *)

WithMinute(ev, raw) == [ev EXCEPT !.minute = raw]
ScoreOf(ev) ==
    compute_final_score(ev, score_home, score_away, HOME_TEAM_ID, AWAY_TEAM_ID).score

(* C11: a goal at minute 90 scores strictly higher than the same goal at   *)
(* minute 10, for every pre-state and team reference: the time bonus is    *)
(* +15 from minute 80 and a further +5 from minute 90 (20 at minute 90),   *)
(* and nothing below minute 80.                                            *)
C11_LateGoalScoresHigher ==
    Scored =>
        /\ ([label |-> "late_game", amount |-> 15] \in Range(context_data.reasons))
              <=> (_parse_minute(events[1]) >= 80)
        /\ ([label |-> "very_late", amount |-> 5] \in Range(context_data.reasons))
              <=> (_parse_minute(events[1]) >= 90)
        /\ (IsGoalType(events[1]) /\ _parse_minute(events[1]) = 90) =>
              /\ final_score.score > ScoreOf(WithMinute(events[1], PyInt(10)))
              /\ final_score.score = ScoreOf(WithMinute(events[1], PyInt(10))) + 20
              /\ ScoreOf(WithMinute(events[1], PyStr(<<"8","0">>)))
                    = ScoreOf(WithMinute(events[1], PyInt(10))) + 15
              /\ ScoreOf(WithMinute(events[1], PyStr(<<"7","5">>)))
                    = ScoreOf(WithMinute(events[1], PyInt(10)))

C11_Witness ==
    /\ Scored
    /\ IsGoalType(events[1])
    /\ _parse_minute(events[1]) = 90
    /\ score_home = 2
    /\ score_away = 1
    /\ final_score.score = ScoreOf(WithMinute(events[1], PyInt(10))) + 20

----------------------------------------------------------------------------
(* C15, C16 *)

RECURSIVE SumAmounts(_)
SumAmounts(reasons) ==
    IF reasons = <<>> THEN 0
    ELSE reasons[1].amount + SumAmounts(Tail(reasons))

(* C15: for every event and pre-state, score = base + context_bonus and    *)
(* context_bonus is the sum of the amounts of the recorded reasons, also   *)
(* when an unrecognized team reference stops the scoreline evaluation.     *)
C15_ScoreIsBasePlusReasons ==
    Scored =>
        /\ final_score.base = get_base_score(events[1].type)
        /\ final_score.score = final_score.base + final_score.context_bonus
        /\ final_score.context_bonus = SumAmounts(final_score.bonus_reasons)
        /\ context_data.bonus = SumAmounts(context_data.reasons)

(* a late penalty goal of an unrecognized team: the evaluation stops early *)
(* with two bonuses already recorded                                       *)
C15_Witness ==
    /\ Scored
    /\ IsGoalType(events[1])
    /\ events[1].teamRef1 \notin {HOME_TEAM_ID, AWAY_TEAM_ID}
    /\ Len(final_score.bonus_reasons) >= 2
    /\ final_score.context_bonus = SumAmounts(final_score.bonus_reasons)
    /\ final_score.score = final_score.base + final_score.context_bonus

ScorerLeadsByTwo ==
    \/ events[1].teamRef1 = HOME_TEAM_ID /\ score_home - score_away >= 2
    \/ events[1].teamRef1 = AWAY_TEAM_ID /\ score_away - score_home >= 2

(* C16: a goal-type event of a known team gets extend_big_lead=5 exactly   *)
(* when its team already led by two or more, so that the goal widens the   *)
(* lead; a goal of the trailing team that narrows such a lead does not.    *)
C16_BigLeadOnlyWhenWidening ==
    (/\ Scored
     /\ IsGoalType(events[1])
     /\ events[1].teamRef1 \in {HOME_TEAM_ID, AWAY_TEAM_ID})
    => (Recorded([label |-> "extend_big_lead", amount |-> 5]) <=> ScorerLeadsByTwo)

----------------------------------------------------------------------------
(* C13, C14, C17: checked under Spec *)

InfoPageFields == {"id", "type", "headline", "body", "image", "created_at"}

(* C13: the info page of the no-highlights fallback carries the fields id, *)
(* type, headline, body, image and created_at, its type is "info" and its  *)
(* image references placeholder.png.                                       *)
C13_InfoPageFields ==
    \A i \in 1..Len(pages) :
        pages[i].type = "info" =>
            /\ InfoPageFields \subseteq DOMAIN pages[i]
            /\ Contains(pages[i].image, PLACEHOLDER_PNG)

(* C14: processing one event changes the running MatchState only for a    *)
(* goal-type event whose team reference is the home or the away id, and    *)
(* then adds exactly 1 to that team's count and leaves the other count;    *)
(* every other event leaves both counts unchanged.                         *)
C14_StateUpdate ==
    [][(pc = "scan" /\ idx <= Len(events)) =>
          LET ev == events[idx] IN
          IF IsGoalType(ev) /\ ev.teamRef1 = HOME_TEAM_ID
          THEN score_home' = score_home + 1 /\ score_away' = score_away
          ELSE IF IsGoalType(ev) /\ ev.teamRef1 = AWAY_TEAM_ID
          THEN score_home' = score_home /\ score_away' = score_away + 1
          ELSE score_home' = score_home /\ score_away' = score_away]_vars

(* C17: the run yields a Story whose metrics.highlights is the number of   *)
(* highlight pages and whose metrics.goals is the number of highlight      *)
(* pages of an event the scorer treats as goal-type (type goal or penalty  *)
(* goal after lower-casing and trimming), so goals <= highlights.          *)
C17_MetricsMatchPages ==
    Terminated =>
        /\ pc = "done"
        /\ metrics.highlights = CountType(pages, "highlight")
        /\ metrics.goals =
              Cardinality({i \in 1..Len(pages) :
                              /\ pages[i].type = "highlight"
                              /\ Strip(Lower(pages[i].event_type)) \in GoalTypes})
        /\ metrics.goals <= metrics.highlights

----------------------------------------------------------------------------
(* The asset matcher alone: pick_asset_for_event applied to one event, one *)
(* list of player names and one loaded catalog                             *)

InitAsset ==
    /\ pc = "pick"
    /\ \E t \in AssetEventTypes :
          events = <<[type |-> t, minute |-> PyInt(10), teamRef1 |-> HOME_TEAM_ID]>>
    /\ player_names \in PlayerLists
    /\ \E items \in RawCatalogs : asset_db = load_asset_descriptions(items)
    /\ asset_path = NoResult
    /\ top_n = 0
    /\ idx = 1
    /\ score_home = 0
    /\ score_away = 0
    /\ scored_events = <<>>
    /\ calls = <<>>
    /\ final_score = NoResult
    /\ context_data = NoResult
    /\ selected = <<>>
    /\ pages = <<>>
    /\ metrics = NoResult

PickAsset ==
    /\ pc = "pick"
    /\ asset_path' = pick_asset_for_event(events[1], player_names, asset_db,
                                          DEFAULT_ASSET)
    /\ pc' = "picked"
    /\ UNCHANGED <<events, top_n, idx, score_home, score_away, scored_events,
                   calls, final_score, context_data, selected, pages, metrics,
                   asset_db, player_names>>

NextAsset == PickAsset

SpecAsset == InitAsset /\ [][NextAsset]_vars

Picked == pc = "picked"

(* the relevance score of the i-th asset of the catalog for the event *)
Relevance(i) ==
    _score_asset_for_event(asset_db[i], Strip(Lower(events[1].type)), player_names)

IsHighest(i) == \A j \in 1..Len(asset_db) : Relevance(j) <= Relevance(i)

(* C12: pick_asset_for_event returns the reference of the catalog asset    *)
(* with the highest relevance score, the earliest in catalog order among   *)
(* those that share it; when every asset scores 0 or the catalog is empty  *)
(* it returns the default asset.                                           *)
C12_FirstHighestAsset ==
    Picked =>
        IF \A i \in 1..Len(asset_db) : Relevance(i) = 0
        THEN asset_path = DEFAULT_ASSET
        ELSE \E i \in 1..Len(asset_db) :
                /\ IsHighest(i)
                /\ \A j \in 1..(i - 1) : Relevance(j) < Relevance(i)
                /\ asset_path = ASSETS_PREFIX \o asset_db[i].filename

(* two different assets share the highest score and the earlier one wins *)
C12_Witness ==
    /\ Picked
    /\ \E i, j \in 1..Len(asset_db) :
          /\ i < j
          /\ IsHighest(i)
          /\ Relevance(j) = Relevance(i)
          /\ Relevance(i) > 0
          /\ asset_db[i].filename # asset_db[j].filename
          /\ \A k \in 1..(i - 1) : Relevance(k) < Relevance(i)
          /\ asset_path = ASSETS_PREFIX \o asset_db[i].filename

====
